---- MODULE Spec2Model ----
(***************************************************************************)
(* pyring: CryptoNote one-time ring signatures over Ed25519.               *)
(*                                                                         *)
(* The model keeps the program's data layout and scales the sizes down so  *)
(* that the state space is finite: a byte has ByteBase values, a scalar    *)
(* and a point take SCALARBYTES bytes, the subgroup order L and the field  *)
(* prime Q are small primes with L < Q below the top bit of a scalar, as   *)
(* in the program (2^252 < L < Q < 2^255 < 2^256).                         *)
(*                                                                         *)
(* The curve is the cyclic group of order L: the point k*G is kept as the  *)
(* integer CurveY[k+1].  SHA3 is not computed: one function into the       *)
(* subgroup stands for hash_to_point, and hash_to_scalar is an oracle that *)
(* draws a digest when a buffer is hashed for the first time and repeats   *)
(* it when the same buffer is hashed again.                                *)
(***************************************************************************)
EXTENDS Integers, Sequences, FiniteSets, TLC

VARIABLES
    phase,      \* "idle"; then "signed" or "sign_raised", then "verified" or
                \* "verify_raised"; or "computed" or "compute_raised" after an
                \* operation on scalars; or "imported" or "import_raised" after
                \* import_pem
    call,       \* the arguments ring_sign was called with
    signature,  \* the RingSignature ring_sign returned
    raised,     \* the exception that ended the last call, or "none"
    hashed,     \* the buffer ring_sign hashed and the integer H_s gave for it
    drawn,      \* the scalars Scalar.random() gave ring_sign: q at every ring
                \* position, w at every position but key_index
    check,      \* the arguments ring_verify was called with, and how they were made
    result,     \* what ring_verify returned
    operation,  \* the operation on scalars that was evaluated, and its operands
    returned,   \* the Scalar the operation returned
    law,        \* the equation between scalars that was evaluated: its name,
                \* its operands (Scalars or ints) and the value of its two sides
    pem,        \* the text import_pem was called with
    imported    \* the RingSignature import_pem returned

ringVars == <<call, signature, hashed, drawn, check, result>>

scalarVars == <<operation, returned, law>>

pemVars == <<pem, imported>>

vars == <<phase, raised, ringVars, scalarVars, pemVars>>

\* ------------------------------------------------------------------ sizes
\* values of one byte (256 in the program)
ByteBase == 4
\* lib.crypto_core_ed25519_SCALARBYTES (32 in the program)
SCALARBYTES == 2
\* lib.crypto_core_ed25519_BYTES (32 in the program)
BYTES == 2
\* order of the prime-order subgroup (2^252 + 2774... in the program)
L == 3
\* prime of the field the curve is defined over (2^255 - 19 in the program)
Q == 7
\* length of a sha3_512 digest in bytes (64 in the program)
HASHBYTES == 3
\* largest ring that is signed
MaxRing == 2
\* longest list in an encoded signature
MaxList == 2

\* int.to_bytes(length, "little"); the caller checks that n fits
RECURSIVE int_to_bytes(_, _)
int_to_bytes(n, length) ==
    IF length = 0 THEN <<>>
    ELSE <<n % ByteBase>> \o int_to_bytes(n \div ByteBase, length - 1)

\* int.from_bytes(data, "little")
RECURSIVE int_from_bytes(_)
int_from_bytes(data) ==
    IF data = <<>> THEN 0 ELSE Head(data) + ByteBase * int_from_bytes(Tail(data))

\* number of values of a SCALARBYTES-byte unsigned integer
ScalarRange == ByteBase^SCALARBYTES

\* the top bit of a SCALARBYTES-byte unsigned integer (2^255 in the program)
TopBit == ScalarRange \div 2

\* ---------------------------------------------------------------- scalars
\* A Scalar is kept as the integer its data holds (SCALARBYTES bytes, little
\* endian), in 0 .. ScalarRange - 1: libsodium reads and writes the data as
\* that integer.

\* Scalar(n) for an int n raises OverflowError in int.to_bytes when n is
\* negative or does not fit SCALARBYTES bytes
Scalar_init_raises(n) == n \notin 0..(ScalarRange - 1)

\* Scalar(n) for an int n: the bytes of n, not reduced modulo L
Scalar_init(n) == int_from_bytes(int_to_bytes(n, SCALARBYTES))

\* Scalar(n) for bytes n raises ValueError unless there are SCALARBYTES of them
Scalar_bytes_raises(n) == Len(n) # SCALARBYTES

\* Scalar(n) for SCALARBYTES bytes n: the data is n
Scalar_bytes(n) == int_from_bytes(n)

\* bytes(scalar.data): the SCALARBYTES bytes the Scalar holds
Scalar_as_bytes(self) == int_to_bytes(self, SCALARBYTES)

\* an addition that leaves the reduction modulo L out
Scalar_add_Unreduced(self, other) == (self + other) % ScalarRange

\* crypto_core_ed25519_scalar_add through Scalar.__add__: both operands are
\* added as SCALARBYTES-byte integers and the sum is reduced modulo L
Scalar_add(self, other) == ((self + other) % ScalarRange) % L

\* crypto_core_ed25519_scalar_negate through Scalar.__neg__
Scalar_neg(self) == (L - (self % L)) % L

\* crypto_core_ed25519_scalar_sub through Scalar.__sub__: x + (-y)
Scalar_sub(self, other) == Scalar_add(self, Scalar_neg(other))

\* an int - Scalar that is not reflected: it subtracts the int from the Scalar
Scalar_rsub_Unreflected(self, other) == Scalar_sub(self, Scalar_init(other))

\* int - Scalar: Scalar.__rsub__ turns the int into a Scalar first
Scalar_rsub(self, other) == Scalar_sub(Scalar_init(other), self)

\* crypto_core_ed25519_scalar_mul through Scalar.__mul__
Scalar_mul(self, other) == (self * other) % L

\* Scalar.__eq__ with an int on the right: int(self) == other
Scalar_eq_int(self, n) == self = n

\* crypto_core_ed25519_scalar_invert as Scalar.__truediv__ calls it: the output
\* is other^(L-2) modulo L, which is 0 for a multiple of L; the status the
\* library returns (-1 for zero) is not read
Scalar_invert(other) == ((other % L)^(L - 2)) % L

\* Scalar.__truediv__ for a Scalar on the right: no exception is raised
Scalar_truediv(self, other) ==
    LET inverted == Scalar_invert(other)
    IN  IF Scalar_eq_int(self, 1) THEN inverted ELSE Scalar_mul(self, inverted)

\* the values Scalar.random() returns: [1, L - 1]
RandomScalars == 1..(L - 1)

\* the canonical scalars: [0, L - 1]
CanonicalScalars == 0..(L - 1)

\* the scalar a multiplication of a point uses: libsodium copies the scalar
\* and clears its top bit (t[31] &= 127) before it multiplies
Unclamped(scalar) == scalar % TopBit

\* ----------------------------------------------------------------- points
\* A Point is kept as the integer its data holds (BYTES bytes, little endian):
\* the encoded y coordinate.  The curve is the cyclic group of order L.

\* encoded y coordinate of k*G for k = 0 .. L-1; the identity encodes as 1
CurveY == <<1, 5, 6>>

\* the point k*G
PointOf(k) == CurveY[k + 1]

\* _IDENTITY_DATA, the data of a fresh Point()
IdentityData == PointOf(0)

\* _GENERATOR_DATA
GeneratorData == PointOf(1)

\* the points of the subgroup
SubgroupPoints == {PointOf(k) : k \in 0..(L - 1)}

\* k with point = k*G, for every point of the subgroup
DLog == [point \in SubgroupPoints |-> CHOOSE k \in 0..(L - 1) : PointOf(k) = point]

\* a Point that takes data of any length
Point_init_never_raises(data) == FALSE

\* Point(data) raises ValueError unless data has BYTES bytes
Point_init_raises(data) == Len(data) # BYTES

\* Point(data) for BYTES bytes: the data is kept, and not looked at
Point_init(data) == int_from_bytes(data)

\* Point.as_bytes
Point_as_bytes(self) == int_to_bytes(self, BYTES)

\* crypto_core_ed25519_add through Point.__add__; a failed call leaves the
\* fresh output point untouched
Point_add(self, other) ==
    IF self \in SubgroupPoints /\ other \in SubgroupPoints
    THEN PointOf((DLog[self] + DLog[other]) % L)
    ELSE IdentityData

\* crypto_scalarmult_ed25519_noclamp through Point.__rmul__ (scalar * point)
Point_rmul(self, other) ==
    IF self \in SubgroupPoints
    THEN PointOf((Unclamped(other) * DLog[self]) % L)
    ELSE IdentityData

\* crypto_scalarmult_ed25519_base_noclamp through Generator.__rmul__
Generator_rmul(other) == PointOf(Unclamped(other) % L)

\* Point.hash_to_point with the default hash: sha3_512 of the data followed by
\* from_hash, which lands in the subgroup.  One function stands for it; it
\* never gives the identity.
HashToPoint ==
    [point \in SubgroupPoints |-> PointOf(1 + ((DLog[point] + 1) % (L - 1)))]

\* a hash_to_scalar that leaves the reduction modulo Q out
hash_to_scalar_Unreduced(digest) == int_from_bytes(digest)

\* the integer hash_to_scalar returns: int.from_bytes(digest, "little") % Q
hash_to_scalar(digest) == int_from_bytes(digest) % Q

\* all byte strings of one length
ByteStrings(len) == [1..len -> 0..(ByteBase - 1)]

\* the integers hash_to_scalar returns for sha3_512 digests
HashScalars == {hash_to_scalar(d) : d \in ByteStrings(HASHBYTES)}

\* ------------------------------------------------------------------- keys
\* PrivateKey.public_key: scalar * G, no clamping and no hashing
PrivateKey_public_key(scalar) == Generator_rmul(scalar)

\* H_p of ring_sign and ring_verify
H_p(point) == HashToPoint[point]

\* PrivateKey.key_image: scalar * H_p(scalar * G)
PrivateKey_key_image(scalar) == Point_rmul(H_p(PrivateKey_public_key(scalar)), scalar)

\* ------------------------------------------------------------- signatures
\* dataclass RingSignature
RingSignature(public_keys, key_image, c, r) ==
    [public_keys |-> public_keys, key_image |-> key_image, c |-> c, r |-> r]

NoSignature == RingSignature(<<>>, IdentityData, <<>>, <<>>)

\* a sum that stops at the first entry
reduce_add_FirstOnly(c) == c[1]

\* functools.reduce(operator.add, c) for a list that is not empty: one entry
\* is returned as it is, more are added from the left
RECURSIVE reduce_add(_)
reduce_add(c) ==
    IF Len(c) = 1 THEN c[1]
    ELSE Scalar_add(reduce_add(SubSeq(c, 1, Len(c) - 1)), c[Len(c)])

\* an insert that puts the value at the end of the list
list_insert_AtEnd(list, index, value) == list \o <<value>>

\* list.insert(index, value): the index counts from 0, a negative one from the
\* end, and it is clipped to the list
list_insert(list, index, value) ==
    LET n == Len(list)
        k == IF index < 0 THEN (IF index + n < 0 THEN 0 ELSE index + n)
             ELSE (IF index > n THEN n ELSE index)
    IN  SubSeq(list, 1, k) \o <<value>> \o SubSeq(list, k + 1, n)

\* the ring positions (from 1) that take the else branch of ring_sign's loop
DecoyPositions(N, key_index) == {i \in 1..N : i - 1 # key_index}

\* the entries of f at the decoy positions from position i on, in ring order:
\* the lists c and r as the loop of ring_sign leaves them
RECURSIVE DecoyList(_, _, _, _)
DecoyList(f, i, N, key_index) ==
    IF i > N THEN <<>>
    ELSE (IF i - 1 = key_index THEN <<>> ELSE <<f[i]>>)
             \o DecoyList(f, i + 1, N, key_index)

\* what the signer appends to the buffer at its own position
SignerCommit(q_s, P_i) ==
    Point_as_bytes(Generator_rmul(q_s)) \o Point_as_bytes(Point_rmul(H_p(P_i), q_s))

\* what the signer appends to the buffer at another position
DecoyCommit(q_i, w_i, P_i, I) ==
    Point_as_bytes(Point_add(Generator_rmul(q_i), Point_rmul(P_i, w_i)))
        \o Point_as_bytes(Point_add(Point_rmul(H_p(P_i), q_i), Point_rmul(I, w_i)))

\* what ring_sign's loop appends to the buffer from position i on
RECURSIVE SignCommits(_, _, _, _, _, _)
SignCommits(i, public_keys, I, key_index, q, w) ==
    IF i > Len(public_keys) THEN <<>>
    ELSE (IF i - 1 = key_index
          THEN SignerCommit(q[i], public_keys[i])
          ELSE DecoyCommit(q[i], w[i], public_keys[i], I))
             \o SignCommits(i + 1, public_keys, I, key_index, q, w)

\* the buffer ring_sign hashes: the message, then two points per ring position
SignBuffer(message, public_keys, I, key_index, q, w) ==
    message \o SignCommits(1, public_keys, I, key_index, q, w)

\* c_s = H_s(buffer) - sum of the w_i
SignerChallenge(h, c) == Scalar_rsub(reduce_add(c), h)

\* r_s = q_s - c_s * x
SignerResponse(q_s, c_s, x) == Scalar_sub(q_s, Scalar_mul(c_s, x))

\* a key image taken from the ring: x * H_p(public_keys[key_index])
ring_sign_I_FromRing(public_keys, private_key, key_index) ==
    Point_rmul(H_p(public_keys[key_index + 1]), private_key)

\* I = PrivateKey(private_key).key_image(): the ring is not looked at
ring_sign_I(public_keys, private_key, key_index) == PrivateKey_key_image(private_key)

\* how ring_sign ends: reduce() raises TypeError when no position took the
\* else branch (c is empty), and q_s is read unassigned (UnboundLocalError) when
\* no position was key_index
ring_sign_raises(public_keys, key_index) ==
    LET N == Len(public_keys)
    IN  IF DecoyPositions(N, key_index) = {} THEN "TypeError"
        ELSE IF key_index \notin 0..(N - 1) THEN "UnboundLocalError"
        ELSE "none"

\* the RingSignature ring_sign returns when it does not raise, with the random
\* scalars q, w it drew and the integer h that H_s gave for its buffer
ring_sign(public_keys, private_key, key_index, q, w, h) ==
    LET N   == Len(public_keys)
        c0  == DecoyList(w, 1, N, key_index)
        r0  == DecoyList(q, 1, N, key_index)
        c   == list_insert(c0, key_index, SignerChallenge(h, c0))
        r_s == SignerResponse(q[key_index + 1], c[key_index + 1], private_key)
    IN  RingSignature(public_keys, ring_sign_I(public_keys, private_key, key_index),
                      c, list_insert(r0, key_index, r_s))

\* the length of zip(public_keys, r, c)
ZipLen(sig) ==
    LET a == Len(sig.public_keys)
        b == Len(sig.r)
        d == Len(sig.c)
        m == IF a < b THEN a ELSE b
    IN  IF m < d THEN m ELSE d

\* what ring_verify appends to the buffer at one position
VerifyCommit(r_i, c_i, P_i, I) ==
    Point_as_bytes(Point_add(Generator_rmul(r_i), Point_rmul(P_i, c_i)))
        \o Point_as_bytes(Point_add(Point_rmul(H_p(P_i), r_i), Point_rmul(I, c_i)))

\* what ring_verify's loop appends to the buffer from position i on
RECURSIVE VerifyCommits(_, _)
VerifyCommits(i, sig) ==
    IF i > ZipLen(sig) THEN <<>>
    ELSE VerifyCommit(sig.r[i], sig.c[i], sig.public_keys[i], sig.key_image)
             \o VerifyCommits(i + 1, sig)

\* a buffer that leaves the message out
VerifyBuffer_NoMessage(message, sig) == VerifyCommits(1, sig)

\* the buffer ring_verify hashes
VerifyBuffer(message, sig) == message \o VerifyCommits(1, sig)

\* a return value without the comparison: the difference itself, an object,
\* which counts as true
ring_verify_result_Truthy(h, sum) == TRUE

\* ring_verify's return value: H_s(buffer) - sum == 0, h being what H_s gives
\* for its buffer and sum being reduce(operator.add, c)
ring_verify_result(h, sum) == Scalar_eq_int(Scalar_rsub(sum, h), 0)

\* H_s as an oracle: the integers hash_to_scalar can give for ring_verify's
\* buffer.  The buffer ring_sign hashed gives the same integer again.  The
\* digest of any other buffer is independent of the challenges; that it equals
\* their sum modulo L by chance (1 in L, about 2^-252 in the program) is left
\* out.
H_s(buffer, sum) ==
    IF hashed.known /\ buffer = hashed.buffer
    THEN {hashed.value}
    ELSE {h \in HashScalars : (h % L) # (sum % L)}

NoHash == [known |-> FALSE, buffer |-> <<>>, value |-> 0]

NoDraw == [q |-> <<>>, w |-> <<>>]

\* ------------------------------------------------- the ring protocol's runs
Messages == {<<>>, <<0>>}

KeyIndexes == (-1)..MaxRing

\* the private keys ring_sign is given: the canonical scalars, and a scalar
\* with the top bit set (PrivateKey.from_private_bytes takes any bytes)
PrivateScalars == CanonicalScalars \cup {TopBit + 1}

NoCall == [message |-> <<>>, public_keys |-> <<>>, private_key |-> Scalar_init(0),
           key_index |-> 0]

NoCheck == [kind |-> "none", index |-> 0, message |-> <<>>, signature |-> NoSignature,
            valid |-> FALSE]

NoOperation == [op |-> "none", self |-> 0, other |-> [type |-> "int", n |-> 0]]

NoLaw == [name |-> "none", x |-> [type |-> "int", n |-> 0],
          y |-> [type |-> "int", n |-> 0], z |-> [type |-> "int", n |-> 0],
          lhs |-> [type |-> "int", n |-> 0], rhs |-> [type |-> "int", n |-> 0]]

Init ==
    /\ phase = "idle"
    /\ call = NoCall
    /\ signature = NoSignature
    /\ raised = "none"
    /\ hashed = NoHash
    /\ drawn = NoDraw
    /\ check = NoCheck
    /\ result = FALSE
    /\ operation = NoOperation
    /\ returned = Scalar_init(0)
    /\ law = NoLaw
    /\ pem = <<>>
    /\ imported = NoSignature

\* a call of ring_sign: its arguments, then the scalars Scalar.random() gives
\* and the integer H_s gives for the buffer (the buffer is bound through a set
\* of one element, so that it is computed once for all h)
RingSign ==
    /\ phase = "idle"
    /\ \E message \in Messages, N \in 1..MaxRing, key_index \in KeyIndexes :
       \E public_keys \in [1..N -> SubgroupPoints], private_key \in PrivateScalars :
         /\ call' = [message |-> message, public_keys |-> public_keys,
                     private_key |-> private_key, key_index |-> key_index]
         /\ raised' = ring_sign_raises(public_keys, key_index)
         /\ IF raised' # "none"
            THEN /\ phase' = "sign_raised"
                 /\ signature' = NoSignature
                 /\ hashed' = NoHash
                 /\ drawn' = NoDraw
            ELSE \E q \in [1..N -> RandomScalars],
                    w \in [DecoyPositions(N, key_index) -> RandomScalars] :
                   \E buffer \in {SignBuffer(message, public_keys,
                                             ring_sign_I(public_keys, private_key,
                                                         key_index),
                                             key_index, q, w)} :
                       \E h \in HashScalars :
                         /\ phase' = "signed"
                         /\ signature' = ring_sign(public_keys, private_key,
                                                   key_index, q, w, h)
                         /\ hashed' = [known |-> TRUE, buffer |-> buffer, value |-> h]
                         /\ drawn' = [q |-> q, w |-> w]
    /\ UNCHANGED <<check, result, scalarVars, pemVars>>

\* the ways the test suite and the claims change a signed message: the kind
\* of change and the list position (from 1) it is made at
Changes(sig) ==
    {[kind |-> k, index |-> 0] : k \in {"message", "reverse", "image"}}
        \cup {[kind |-> "c+1", index |-> i] : i \in 1..Len(sig.c)}
        \cup {[kind |-> "r+1", index |-> i] : i \in 1..Len(sig.r)}
        \cup {[kind |-> "c+L", index |-> 1]}

Unchanged == [kind |-> "none", index |-> 0]

\* ring_sign's precondition: key_index is a ring position and the public key
\* there is the one of private_key
Honest(args) ==
    /\ args.key_index \in 0..(Len(args.public_keys) - 1)
    /\ args.public_keys[args.key_index + 1] = PrivateKey_public_key(args.private_key)

RECURSIVE Reverse(_)
Reverse(list) ==
    IF list = <<>> THEN <<>> ELSE Reverse(Tail(list)) \o <<Head(list)>>

\* what the caller of ring_sign does to its list public_keys afterwards, and
\* the in-place change the test suite makes to the list c of the signature
OwnershipChanges(sig) ==
    {[kind |-> "list[i]=P", index |-> i] : i \in 1..Len(sig.public_keys)}
        \cup {[kind |-> k, index |-> 0] : k \in {"list.append(P)", "list.pop()"}}
        \cup {[kind |-> "c[i]+=1", index |-> i] : i \in 1..Len(sig.c)}

\* signatures whose lists are not of one length: a public key, an r or a c
\* appended, the last r removed, and all of c removed
LengthChanges(sig) ==
    {[kind |-> k, index |-> 0] :
        k \in {"more keys", "more r", "more c", "fewer r", "no c"}}

\* the caller's list once the caller changed it: an element replaced by
\* another point, a point appended, the last element removed
ChangedList(ch, list) ==
    CASE ch.kind = "list[i]=P"      ->
            [list EXCEPT ![ch.index] = PointOf((DLog[@] + 1) % L)]
      [] ch.kind = "list.append(P)" -> Append(list, GeneratorData)
      [] ch.kind = "list.pop()"     -> SubSeq(list, 1, Len(list) - 1)
      [] OTHER                      -> list

\* signature.public_keys once the caller's list holds list: ring_sign hands
\* the list object it was given to RingSignature, which keeps it (no copy is
\* made), so the field is the caller's list
RingSignature_public_keys(sig, list) == list

\* message + b"0"
ChangedMessage(ch, message) ==
    IF ch.kind = "message" THEN message \o <<0>> ELSE message

\* dataclasses.replace(signature, ...), signature.c[i] += 1, and a scalar
\* replaced by Scalar(int(scalar) + L)
ChangedSignature(ch, sig) ==
    CASE ch.kind = "reverse" -> [sig EXCEPT !.public_keys = Reverse(@)]
      [] ch.kind = "image"   ->
            [sig EXCEPT !.key_image = Point_rmul(@, Scalar_init(2))]
      [] ch.kind = "c+1"     ->
            [sig EXCEPT !.c[ch.index] = Scalar_add(@, Scalar_init(1))]
      [] ch.kind = "r+1"     ->
            [sig EXCEPT !.r[ch.index] = Scalar_add(@, Scalar_init(1))]
      [] ch.kind = "c+L"     ->
            [sig EXCEPT !.c[ch.index] = Scalar_init(@ + L)]
      [] ch.kind = "more keys" ->
            [sig EXCEPT !.public_keys = Append(@, GeneratorData)]
      [] ch.kind = "more r"  -> [sig EXCEPT !.r = Append(@, Scalar_init(1))]
      [] ch.kind = "more c"  -> [sig EXCEPT !.c = Append(@, Scalar_init(1))]
      [] ch.kind = "fewer r" -> [sig EXCEPT !.r = SubSeq(@, 1, Len(@) - 1)]
      [] ch.kind = "no c"    -> [sig EXCEPT !.c = <<>>]
      [] ch.kind = "c[i]+=1" ->
            [sig EXCEPT !.c[ch.index] = Scalar_add(@, Scalar_init(1))]
      [] ch.kind \in {"list[i]=P", "list.append(P)", "list.pop()"} ->
            [sig EXCEPT !.public_keys =
                            RingSignature_public_keys(sig, ChangedList(ch, @))]
      [] OTHER               -> sig

\* ring_verify(message, sig) returns true for the message and signature of
\* the call of ring_sign, as they are: it rebuilds the buffer ring_sign hashed
Valid ==
    /\ signature.c # <<>>
    /\ hashed.known
    /\ VerifyBuffer(call.message, signature) = hashed.buffer

\* a call of ring_verify, on the signed message or on a changed one; reduce()
\* raises TypeError when c is empty.  check.valid records whether the call of
\* ring_sign met its precondition and made a signature that verifies.
RingVerifyAfter(changes) ==
    /\ phase = "signed"
    /\ \E valid \in {Honest(call) /\ Valid} :
       \E ch \in {Unchanged} \cup (IF Honest(call) THEN changes ELSE {}) :
       \E message \in {ChangedMessage(ch, call.message)},
          sig \in {ChangedSignature(ch, signature)} :
         /\ check' = [kind |-> ch.kind, index |-> ch.index,
                      message |-> message, signature |-> sig, valid |-> valid]
         /\ IF sig.c = <<>>
            THEN /\ raised' = "TypeError"
                 /\ result' = FALSE
                 /\ phase' = "verify_raised"
            ELSE \E sum \in {reduce_add(sig.c)} :
                   /\ result' \in {ring_verify_result(h, sum) :
                                      h \in H_s(VerifyBuffer(message, sig), sum)}
                   /\ raised' = "none"
                   /\ phase' = "verified"
    /\ hashed' = NoHash
    /\ UNCHANGED <<call, signature, drawn, scalarVars, pemVars>>

\* ring_verify on the signed message, unchanged or changed as the test suite
\* and the claims change it
RingVerify == RingVerifyAfter(Changes(signature))

Next == RingSign \/ RingVerify

Spec == Init /\ [][Next]_vars

\* ------------------------------------------- who owns the lists of a signature
\* ring_verify(message, signature) after the caller changed its list
\* public_keys, or after signature.c[i] += 1
VerifyAfterChange == RingVerifyAfter(OwnershipChanges(signature))

OwnershipNext == RingSign \/ VerifyAfterChange

OwnershipSpec == Init /\ [][OwnershipNext]_vars

\* --------------------------------------------- lists of different lengths
\* ring_verify on a signature whose lists are not of one length
RingVerifyLengths == RingVerifyAfter(LengthChanges(signature))

LengthsNext == RingSign \/ RingVerifyLengths

LengthsSpec == Init /\ [][LengthsNext]_vars

\* ------------------------------------------------- operations on scalars
\* every value a Scalar can hold, canonical or not
Scalars == 0..(ScalarRange - 1)

\* the ints an operator is given: some do not fit a Scalar
Ints == (-1)..ScalarRange

\* what stands on the other side of an operator: a Scalar or an int
ScalarLike ==
    [type : {"Scalar"}, n : Scalars] \cup [type : {"int"}, n : Ints]

\* the conversion every operator starts with: Scalar(other) for an int
ConversionRaises(other) == other.type = "int" /\ Scalar_init_raises(other.n)

Converted(other) == IF other.type = "int" THEN Scalar_init(other.n) ELSE other.n

\* self / other through Scalar.__truediv__
Truediv ==
    /\ phase = "idle"
    /\ \E self \in Scalars, other \in ScalarLike :
         /\ operation' = [op |-> "truediv", self |-> self, other |-> other]
         /\ IF ConversionRaises(other)
            THEN /\ raised' = "OverflowError"
                 /\ returned' = returned
                 /\ phase' = "compute_raised"
            ELSE /\ raised' = "none"
                 /\ returned' = Scalar_truediv(self, Converted(other))
                 /\ phase' = "computed"
    /\ UNCHANGED <<ringVars, pemVars, law>>

\* other / self for an int other through Scalar.__rtruediv__, which converts
\* other and divides it by self
RTruediv ==
    /\ phase = "idle"
    /\ \E self \in Scalars, n \in Ints :
         LET other == [type |-> "int", n |-> n]
         IN  /\ operation' = [op |-> "rtruediv", self |-> self, other |-> other]
             /\ IF ConversionRaises(other)
                THEN /\ raised' = "OverflowError"
                     /\ returned' = returned
                     /\ phase' = "compute_raised"
                ELSE /\ raised' = "none"
                     /\ returned' = Scalar_truediv(Converted(other), self)
                     /\ phase' = "computed"
    /\ UNCHANGED <<ringVars, pemVars, law>>

ScalarNext == Truediv \/ RTruediv

ScalarSpec == Init /\ [][ScalarNext]_vars

\* ------------------------------------------ construction and arithmetic
\* lib.crypto_core_ed25519_NONREDUCEDSCALARBYTES (64 in the program)
NONREDUCEDSCALARBYTES == 2 * SCALARBYTES

\* Scalar.__eq__ with a Scalar on the right: the bytes of the two are compared
Scalar_eq(self, other) == Scalar_as_bytes(self) = Scalar_as_bytes(other)

\* int + Scalar: Scalar.__radd__ is self + other
Scalar_radd(self, other) == Scalar_add(self, Scalar_init(other))

\* int * Scalar: Scalar.__rmul__ is self * other
Scalar_rmul(self, other) == Scalar_mul(self, Scalar_init(other))

\* int / Scalar: Scalar.__rtruediv__ is Scalar(other) / self
Scalar_rtruediv(self, other) == Scalar_truediv(Scalar_init(other), self)

\* Scalar.from_unreduced raises ValueError unless there are
\* NONREDUCEDSCALARBYTES bytes
Scalar_from_unreduced_raises(n) == Len(n) # NONREDUCEDSCALARBYTES

\* Scalar.from_unreduced: crypto_core_ed25519_scalar_reduce
Scalar_from_unreduced(n) == int_from_bytes(n) % L

\* the operators with a Scalar on the left, and those Python calls for an int
\* on the left
LeftOperators == {"add", "sub", "mul"}

RightOperators == {"radd", "rsub", "rmul"}

\* self <op> other, other being a Scalar already; for a right operator other
\* stood on the left
BinaryResult(op, self, other) ==
    CASE op = "add"  -> Scalar_add(self, other)
      [] op = "sub"  -> Scalar_sub(self, other)
      [] op = "mul"  -> Scalar_mul(self, other)
      [] op = "radd" -> Scalar_add(self, other)
      [] op = "rsub" -> Scalar_sub(other, self)
      [] op = "rmul" -> Scalar_mul(self, other)

\* byte strings a constructor is given: of the right length and not
BytesGiven(length) ==
    ByteStrings(length) \cup {<<1>>} \cup ByteStrings(length + 1)

\* Scalar(n) for an int or for bytes
ScalarConstruct ==
    /\ phase = "idle"
    /\ \/ \E n \in Ints :
            /\ operation' = [op |-> "init", self |-> 0,
                             other |-> [type |-> "int", n |-> n]]
            /\ IF Scalar_init_raises(n)
               THEN /\ raised' = "OverflowError"
                    /\ returned' = returned
                    /\ phase' = "compute_raised"
               ELSE /\ raised' = "none"
                    /\ returned' = Scalar_init(n)
                    /\ phase' = "computed"
       \/ \E n \in BytesGiven(SCALARBYTES) :
            /\ operation' = [op |-> "init", self |-> 0,
                             other |-> [type |-> "bytes", n |-> n]]
            /\ IF Scalar_bytes_raises(n)
               THEN /\ raised' = "ValueError"
                    /\ returned' = returned
                    /\ phase' = "compute_raised"
               ELSE /\ raised' = "none"
                    /\ returned' = Scalar_bytes(n)
                    /\ phase' = "computed"
    /\ UNCHANGED <<ringVars, pemVars, law>>

\* Scalar.from_unreduced(n)
FromUnreduced ==
    /\ phase = "idle"
    /\ \E n \in ByteStrings(NONREDUCEDSCALARBYTES)
                   \cup ByteStrings(NONREDUCEDSCALARBYTES - 1) :
         /\ operation' = [op |-> "from_unreduced", self |-> 0,
                          other |-> [type |-> "bytes", n |-> n]]
         /\ IF Scalar_from_unreduced_raises(n)
            THEN /\ raised' = "ValueError"
                 /\ returned' = returned
                 /\ phase' = "compute_raised"
            ELSE /\ raised' = "none"
                 /\ returned' = Scalar_from_unreduced(n)
                 /\ phase' = "computed"
    /\ UNCHANGED <<ringVars, pemVars, law>>

\* self + other, self - other, self * other for a Scalar self and a Scalar or
\* an int other, and other + self, other - self, other * self for an int other
Binary ==
    /\ phase = "idle"
    /\ \E op \in LeftOperators \cup RightOperators, self \in Scalars,
          other \in ScalarLike :
         /\ op \in RightOperators => other.type = "int"
         /\ operation' = [op |-> op, self |-> self, other |-> other]
         /\ IF ConversionRaises(other)
            THEN /\ raised' = "OverflowError"
                 /\ returned' = returned
                 /\ phase' = "compute_raised"
            ELSE /\ raised' = "none"
                 /\ returned' = BinaryResult(op, self, Converted(other))
                 /\ phase' = "computed"
    /\ UNCHANGED <<ringVars, pemVars, law>>

\* -self
Negate ==
    /\ phase = "idle"
    /\ \E self \in Scalars :
         /\ operation' = [op |-> "neg", self |-> self,
                          other |-> [type |-> "int", n |-> 0]]
         /\ returned' = Scalar_neg(self)
    /\ raised' = "none"
    /\ phase' = "computed"
    /\ UNCHANGED <<ringVars, pemVars, law>>

ArithmeticNext ==
    ScalarConstruct \/ FromUnreduced \/ Binary \/ Negate \/ Truediv \/ RTruediv

ArithmeticSpec == Init /\ [][ArithmeticNext]_vars

\* ------------------------------------------------ equations between scalars
\* An operand is a Scalar or an int, as in ScalarLike.  Python evaluates
\* a <op> b through the method of a when a is a Scalar, and through the
\* reflected method of b when a is an int and b is a Scalar.
AsScalar(n) == [type |-> "Scalar", n |-> n]

AsInt(n) == [type |-> "int", n |-> n]

\* a + b
Plus(a, b) ==
    AsScalar(IF a.type = "Scalar" THEN Scalar_add(a.n, Converted(b))
             ELSE Scalar_radd(b.n, a.n))

\* a - b
Minus(a, b) ==
    AsScalar(IF a.type = "Scalar" THEN Scalar_sub(a.n, Converted(b))
             ELSE Scalar_rsub(b.n, a.n))

\* a * b
Times(a, b) ==
    AsScalar(IF a.type = "Scalar" THEN Scalar_mul(a.n, Converted(b))
             ELSE Scalar_rmul(b.n, a.n))

\* a / b
Over(a, b) ==
    AsScalar(IF a.type = "Scalar" THEN Scalar_truediv(a.n, Converted(b))
             ELSE Scalar_rtruediv(b.n, a.n))

\* -a for a Scalar a
Minus1(a) == AsScalar(Scalar_neg(a.n))

\* a == b, one of the two at least being a Scalar: Scalar.__eq__, reflected
\* for an int on the left
Equal(a, b) ==
    IF a.type = "Scalar" /\ b.type = "Scalar" THEN Scalar_eq(a.n, b.n)
    ELSE IF a.type = "Scalar" THEN Scalar_eq_int(a.n, b.n)
    ELSE Scalar_eq_int(b.n, a.n)

LawNames ==
    {"x+y=y+x", "(x+y)+z=x+(y+z)", "x*y=y*x", "(x*y)*z=x*(y*z)", "x+0=x",
     "x+(-x)=0", "x*1=x", "x*0=0", "y-x=-(x-y)", "(1/x)*x=1", "x/1=x", "(x/y)*y=x"}

\* the operands an equation is evaluated for: canonical, one of them at most
\* an int, and those the equation does not name left at Scalar(0); the
\* constants 0 and 1 of an equation are its operand y
LawOperands(name) ==
    LET Canonical == {AsScalar(n) : n \in CanonicalScalars}
                         \cup {AsInt(n) : n \in CanonicalScalars}
        Zs == IF name \in {"(x+y)+z=x+(y+z)", "(x*y)*z=x*(y*z)"}
              THEN Canonical ELSE {AsScalar(0)}
        Ys == CASE name \in {"x+0=x", "x*0=0"}            -> {AsScalar(0), AsInt(0)}
                [] name \in {"x*1=x", "x/1=x", "(1/x)*x=1"} -> {AsScalar(1), AsInt(1)}
                [] name = "x+(-x)=0"                      -> {AsInt(0)}
                [] name = "(x/y)*y=x"                     -> {v \in Canonical : v.n # 0}
                [] OTHER                                  -> Canonical
        Xs == CASE name \in {"x+(-x)=0"}                  -> {AsScalar(n) : n \in CanonicalScalars}
                [] name \in {"(1/x)*x=1"}                 -> {AsScalar(n) : n \in CanonicalScalars \ {0}}
                [] name \in {"(x/y)*y=x"}                 -> {v \in Canonical : v.n # 0}
                [] OTHER                                  -> Canonical
    IN  {v \in [x : Xs, y : Ys, z : Zs] :
            Cardinality({k \in {"x", "y", "z"} : v[k].type = "int"}) <= 1}

\* the two sides of an equation
LawSides(name, x, y, z) ==
    CASE name = "x+y=y+x"         -> <<Plus(x, y), Plus(y, x)>>
      [] name = "(x+y)+z=x+(y+z)" -> <<Plus(Plus(x, y), z), Plus(x, Plus(y, z))>>
      [] name = "x*y=y*x"         -> <<Times(x, y), Times(y, x)>>
      [] name = "(x*y)*z=x*(y*z)" -> <<Times(Times(x, y), z), Times(x, Times(y, z))>>
      [] name = "x+0=x"           -> <<Plus(x, y), x>>
      [] name = "x+(-x)=0"        -> <<Plus(x, Minus1(x)), y>>
      [] name = "x*1=x"           -> <<Times(x, y), x>>
      [] name = "x*0=0"           -> <<Times(x, y), AsInt(0)>>
      [] name = "y-x=-(x-y)"      -> <<Minus(y, x), Minus1(Minus(x, y))>>
      [] name = "(1/x)*x=1"       -> <<Times(Over(y, x), x), AsInt(1)>>
      [] name = "x/1=x"           -> <<Over(x, y), x>>
      [] name = "(x/y)*y=x"       -> <<Times(Over(x, y), y), x>>

\* both sides of one equation are evaluated
Law ==
    /\ phase = "idle"
    /\ \E name \in LawNames :
         \E v \in LawOperands(name) :
           \E sides \in {LawSides(name, v.x, v.y, v.z)} :
             law' = [name |-> name, x |-> v.x, y |-> v.y, z |-> v.z,
                     lhs |-> sides[1], rhs |-> sides[2]]
    /\ phase' = "evaluated"
    /\ raised' = "none"
    /\ UNCHANGED <<ringVars, pemVars, operation, returned>>

LawNext == Law

LawSpec == Init /\ [][LawNext]_vars

\* ------------------------------------------------------- hash_to_scalar
\* the digest sizes of the hash names: shorter than a scalar (sha3_224), as
\* long as a scalar (blake2s) and longer (sha3_512)
DigestSizes == {SCALARBYTES - 1, SCALARBYTES, HASHBYTES}

\* hash_to_scalar(data, hash_name), for the digest hashlib gives for the data
HashToScalar ==
    /\ phase = "idle"
    /\ \E size \in DigestSizes :
         \E digest \in ByteStrings(size) :
           /\ operation' = [op |-> "hash_to_scalar", self |-> 0,
                            other |-> [type |-> "bytes", n |-> digest]]
           /\ returned' = hash_to_scalar(digest)
    /\ phase' = "hashed"
    /\ raised' = "none"
    /\ UNCHANGED <<ringVars, pemVars, law>>

\* H_s(buffer_) - functools.reduce(operator.add, c) of ring_sign and
\* ring_verify: int - Scalar, for the integer hash_to_scalar returned
HashMinusSum ==
    /\ phase = "hashed"
    /\ \E sum \in Scalars :
         LET other == AsInt(returned)
         IN  /\ operation' = [op |-> "rsub", self |-> sum, other |-> other]
             /\ IF ConversionRaises(other)
                THEN /\ raised' = "OverflowError"
                     /\ returned' = returned
                     /\ phase' = "compute_raised"
                ELSE /\ raised' = "none"
                     /\ returned' = Scalar_rsub(sum, returned)
                     /\ phase' = "computed"
    /\ UNCHANGED <<ringVars, pemVars, law>>

HashNext == HashToScalar \/ HashMinusSum

HashSpec == Init /\ [][HashNext]_vars

\* ------------------------------------------------------------ serialisation
\* A DER value is kept as its tag and its content: the bytes of an OCTET
\* STRING, the arcs of an OBJECT IDENTIFIER, the values in a SEQUENCE.  A PEM
\* text is kept as a sequence of tokens: a whitespace character, one of the
\* two marker lines, another character, or the base64 text of one value of
\* the DER stream.

OctetString(data) == [tag |-> "OCTET STRING", value |-> data]

ObjectIdentifier(arcs) == [tag |-> "OBJECT IDENTIFIER", value |-> arcs]

Sequence(values) == [tag |-> "SEQUENCE", value |-> values]

\* bytes that start no DER value
Junk == [tag |-> "junk", value |-> <<>>]

NoValue == [tag |-> "none", value |-> <<>>]

\* _OBJECT_ID: (2, 25) and the bytes of the UUID (one of them here)
OBJECT_ID == <<2, 25, 59>>

\* another object identifier
OTHER_ID == <<2, 25, 60>>

\* a character of string.whitespace
WS == [kind |-> "ws", der |-> NoValue]

\* _PEM_OPENING
PEM_OPENING == [kind |-> "open", der |-> NoValue]

\* _PEM_CLOSING
PEM_CLOSING == [kind |-> "close", der |-> NoValue]

\* the character "x": no whitespace, and no base64 text on its own
X == [kind |-> "x", der |-> NoValue]

\* the base64 text of the bytes of one DER value
B64(der) == [kind |-> "b64", der |-> der]

\* the outcome of a call: the exception it raised, or the value it returned
Raise(exception) == [raised |-> exception, signature |-> NoSignature]

Return(sig) == [raised |-> "none", signature |-> sig]

\* str.strip(): whitespace is dropped at both ends
RECURSIVE str_lstrip(_)
str_lstrip(text) ==
    IF text # <<>> /\ Head(text) = WS THEN str_lstrip(Tail(text)) ELSE text

RECURSIVE str_rstrip(_)
str_rstrip(text) ==
    IF text # <<>> /\ text[Len(text)] = WS
    THEN str_rstrip(SubSeq(text, 1, Len(text) - 1))
    ELSE text

str_strip(text) == str_rstrip(str_lstrip(text))

\* str.startswith and str.endswith for a marker
str_startswith(text, marker) == text # <<>> /\ Head(text) = marker

str_endswith(text, marker) == text # <<>> /\ text[Len(text)] = marker

\* signature.translate({ord(c): None for c in string.whitespace})
remove_whitespace(text) == SelectSeq(text, LAMBDA t : t # WS)

\* base64.b64decode(text, validate=True) raises binascii.Error for a character
\* that is not base64 text
b64decode_raises(text) == \E i \in 1..Len(text) : text[i].kind # "b64"

\* base64.b64decode(text, validate=True): the bytes, here the DER values
b64decode(text) == [i \in 1..Len(text) |-> text[i].der]

\* pyasn1.codec.der.decoder.decode(der) raises when no value starts the bytes
der_decode_raises(der) == der = <<>> \/ Head(der) = Junk

\* pyasn1.codec.der.decoder.decode(der): the first value and the bytes after it
der_decode(der) == [asn1 |-> Head(der), remainder |-> Tail(der)]

\* asn1["field-k"] of a decoded SEQUENCE
field(asn1, k) == asn1.value[k + 1]

\* [Point(public_key) for public_key in list] raises when one Point() does
points_raise(list) ==
    \E i \in 1..Len(list.value) : Point_init_raises(list.value[i].value)

\* [Point(public_key) for public_key in list]
points_of(list) == [i \in 1..Len(list.value) |-> Point_init(list.value[i].value)]

\* [Scalar(c) for c in list] raises when one Scalar() does
scalars_raise(list) ==
    \E i \in 1..Len(list.value) : Scalar_bytes_raises(list.value[i].value)

\* [Scalar(c) for c in list]
scalars_of(list) == [i \in 1..Len(list.value) |-> Scalar_bytes(list.value[i].value)]

\* import_pem
import_pem(text) ==
    LET stripped == str_strip(text)
    IN  IF ~str_startswith(stripped, PEM_OPENING) \/ ~str_endswith(stripped, PEM_CLOSING)
        THEN Raise("ValueError")
        ELSE
    LET body == remove_whitespace(SubSeq(stripped, 2, Len(stripped) - 1))
    IN  IF b64decode_raises(body) THEN Raise("binascii.Error")
        ELSE
    LET der == b64decode(body)
    IN  IF der_decode_raises(der) THEN Raise("PyAsn1Error")
        ELSE
    LET asn1 == der_decode(der).asn1
    IN  IF der_decode(der).remainder # <<>> THEN Raise("ValueError")
        ELSE IF field(asn1, 0).value # OBJECT_ID THEN Raise("ValueError")
        ELSE IF \/ Point_init_raises(field(asn1, 1).value)
                \/ points_raise(field(asn1, 2))
                \/ scalars_raise(field(asn1, 3))
                \/ scalars_raise(field(asn1, 4))
        THEN Raise("ValueError")
        ELSE Return(RingSignature(points_of(field(asn1, 2)),
                                  Point_init(field(asn1, 1).value),
                                  scalars_of(field(asn1, 3)),
                                  scalars_of(field(asn1, 4))))

\* ----------------------------------------------------- the texts imported
\* octet strings of the right length, a shorter and a longer one
ValidOctets == {<<1, 0>>, <<2, 1>>}

ShortOctets == <<1>>

LongOctets == <<1, 0, 0>>

OctetLists == UNION {[1..n -> ValidOctets] : n \in 0..MaxList}

\* what a well-formed structure holds; the three lists need not be as long as
\* one another
Structures ==
    [algorithm : {OBJECT_ID}, key_image : ValidOctets,
     public_keys : OctetLists, c : OctetLists, r : OctetLists]

\* the structure with one thing wrong: the object identifier, or the length
\* of one octet string
Malformations(f) ==
    {[f EXCEPT !.algorithm = OTHER_ID]}
        \cup {[f EXCEPT !.key_image = o] : o \in {ShortOctets, LongOctets}}
        \cup {[f EXCEPT !.public_keys[i] = ShortOctets] : i \in 1..Len(f.public_keys)}
        \cup {[f EXCEPT !.c[i] = LongOctets] : i \in 1..Len(f.c)}
        \cup {[f EXCEPT !.r[i] = ShortOctets] : i \in 1..Len(f.r)}

OctetStrings(list) == [i \in 1..Len(list) |-> OctetString(list[i])]

\* the DER value of a structure, fields in the order of RingSignatureSchema
Encoded(f) ==
    Sequence(<<ObjectIdentifier(f.algorithm), OctetString(f.key_image),
               Sequence(OctetStrings(f.public_keys)), Sequence(OctetStrings(f.c)),
               Sequence(OctetStrings(f.r))>>)

\* the base64 text of a DER stream
Base64(der) == [i \in 1..Len(der) |-> B64(der[i])]

\* the text export_pem lays out: the markers on lines of their own
Pem(der) == <<PEM_OPENING, WS>> \o Base64(der) \o <<WS, PEM_CLOSING>>

\* the texts import_pem is called with for one structure: the text of the
\* structure, of each of its malformations, and the texts with something
\* wrong around the structure
Texts(f) ==
    LET der  == <<Encoded(f)>>
        text == Pem(der)
    IN  {text, <<WS>> \o text \o <<WS, WS>>}
            \cup {Pem(<<Encoded(g)>>) : g \in Malformations(f)}
            \cup {Pem(der \o <<Junk>>), Pem(<<Junk>>), Pem(<<>>)}
            \cup {text \o <<X>>, text \o <<WS, X>>, <<X>> \o text,
                  Tail(text), SubSeq(text, 1, Len(text) - 1),
                  <<PEM_OPENING>> \o Base64(der) \o <<X, PEM_CLOSING>>}

ImportPem ==
    /\ phase = "idle"
    /\ \E f \in Structures :
         \E text \in Texts(f) :
           LET outcome == import_pem(text)
           IN  /\ pem' = text
               /\ raised' = outcome.raised
               /\ imported' = outcome.signature
               /\ phase' = IF outcome.raised = "none" THEN "imported"
                                                      ELSE "import_raised"
    /\ UNCHANGED <<ringVars, scalarVars>>

PemNext == ImportPem

PemSpec == Init /\ [][PemNext]_vars

\* ----------------------------------------------- export_pem and import_pem
\* a dict that gives the list r under "c" and the list c under "r"
native_Swapped(ring_signature) ==
    [algorithm   |-> OBJECT_ID,
     key_image   |-> Point_as_bytes(ring_signature.key_image),
     public_keys |-> [i \in 1..Len(ring_signature.public_keys) |->
                         Point_as_bytes(ring_signature.public_keys[i])],
     c           |-> [i \in 1..Len(ring_signature.r) |->
                         Scalar_as_bytes(ring_signature.r[i])],
     r           |-> [i \in 1..Len(ring_signature.c) |->
                         Scalar_as_bytes(ring_signature.c[i])]]

\* the dict export_pem builds, decoded against RingSignatureSchema: the fields
\* are set by name, and algorithm keeps the value the schema gives it
native(ring_signature) ==
    [algorithm   |-> OBJECT_ID,
     key_image   |-> Point_as_bytes(ring_signature.key_image),
     public_keys |-> [i \in 1..Len(ring_signature.public_keys) |->
                         Point_as_bytes(ring_signature.public_keys[i])],
     c           |-> [i \in 1..Len(ring_signature.c) |->
                         Scalar_as_bytes(ring_signature.c[i])],
     r           |-> [i \in 1..Len(ring_signature.r) |->
                         Scalar_as_bytes(ring_signature.r[i])]]

\* export_pem: the DER value of the structure, its base64 text, the markers
export_pem(ring_signature) == Pem(<<Encoded(native(ring_signature))>>)

\* the data of the points exported: the identity, the generator, and data
\* that is no point of the curve (Point() does not look at its data)
PointData == {IdentityData, GeneratorData, 0}

\* the scalars exported: canonical ones, and others (L + 1, the largest value)
ScalarData == {1, L + 1, ScalarRange - 1}

\* the signatures exported: three lists of one length, the empty ring included
Signatures ==
    UNION {[public_keys : [1..n -> PointData], key_image : PointData,
            c : [1..n -> ScalarData], r : [1..n -> ScalarData]] : n \in 0..MaxList}

\* a call of export_pem
ExportPem ==
    /\ phase = "idle"
    /\ \E ring_signature \in Signatures :
         /\ signature' = ring_signature
         /\ pem' = export_pem(ring_signature)
    /\ phase' = "exported"
    /\ raised' = "none"
    /\ UNCHANGED <<call, hashed, drawn, check, result, scalarVars, imported>>

\* a call of import_pem on the text export_pem returned
ImportExported ==
    /\ phase = "exported"
    /\ LET outcome == import_pem(pem)
       IN  /\ raised' = outcome.raised
           /\ imported' = outcome.signature
           /\ phase' = IF outcome.raised = "none" THEN "reimported"
                                                  ELSE "reimport_raised"
    /\ UNCHANGED <<ringVars, scalarVars, pem>>

RoundTripNext == ExportPem \/ ImportExported

RoundTripSpec == Init /\ [][RoundTripNext]_vars

\* ------------------------------------------------ properties of the ring protocol
\* ring_verify was called and ended, on the signed message changed in way kind
Checked(kind) ==
    /\ phase \in {"verified", "verify_raised"}
    /\ check.kind = kind

\* ring_verify returned, and returned true
Accepted == phase = "verified" /\ result = TRUE

\* ring_verify returned, and returned false
Rejected == phase = "verified" /\ result = FALSE

\* ring_sign was called as it asks to be, and ring_verify returns true for
\* the message and the signature it returned
ValidSignature == check.valid

\* C1: a call of ring_sign on a ring of two or more keys, with key_index in the
\* ring and the public key there being x*G, returns a signature, and ring_verify
\* on the same message and that signature returns true, whatever the message,
\* the ring, the secret x, the random scalars and the digest were.
C1_Completeness ==
    (Honest(call) /\ Len(call.public_keys) >= 2) =>
        /\ phase # "sign_raised"
        /\ Checked("none") => Accepted

\* C2: a call of ring_sign on a ring of one key, with key_index = 0 and that
\* key being x*G, does not raise, returns lists c and r of one entry each, and
\* ring_verify on that signature returns true.
C2_RingOfOneKey ==
    (Honest(call) /\ Len(call.public_keys) = 1) =>
        /\ phase # "sign_raised"
        /\ phase # "idle" => Len(signature.c) = 1 /\ Len(signature.r) = 1
        /\ Checked("none") => Accepted

\* C3 as stated: on a signature that verifies, ring_verify returns false when
\* a byte is appended to the message, when the key image is doubled, and when
\* one c_i or one r_i is replaced by it plus 1.
C3_TestedChanges ==
    (ValidSignature /\ \E k \in {"message", "image", "c+1", "r+1"} : Checked(k)) =>
        Rejected

\* C3 amended: the same, the doubled key image only for a key image that is
\* not the identity (the key image of the private key 0 is the identity, and
\* twice the identity is the identity: nothing was changed).
C3_TestedChangesOfImage ==
    (/\ ValidSignature
     /\ \E k \in {"message", "image", "c+1", "r+1"} : Checked(k)
     /\ Checked("image") => signature.key_image # IdentityData) =>
        Rejected

C3_Witness ==
    /\ ValidSignature
    /\ Checked("image")
    /\ signature.key_image # IdentityData
    /\ check.signature.key_image # signature.key_image
    /\ Rejected

\* C4 as stated: on a valid signature of any ring, ring_verify returns false
\* once public_keys is replaced by the same list reversed.
C4_ReversedRing ==
    (ValidSignature /\ Checked("reverse")) => Rejected

\* C4 amended: the same for every ring that differs from its reverse (a ring
\* that reads the same in both directions is not changed by reversing it).
C4_ReversedRingDiffers ==
    (/\ ValidSignature
     /\ Checked("reverse")
     /\ Reverse(call.public_keys) # call.public_keys) =>
        Rejected

C4_Witness ==
    /\ ValidSignature
    /\ Checked("reverse")
    /\ check.signature.public_keys # signature.public_keys
    /\ Rejected

\* C5: ring_verify returns false for every message and signature that differ
\* from a valid pair in the message, the ring, the key image or the raw value
\* of an entry of c or r, c_i + L in place of c_i included.
C5_AnyTampering ==
    (/\ ValidSignature
     /\ phase \in {"verified", "verify_raised"}
     /\ check.message # call.message \/ check.signature # signature) =>
        Rejected

\* C6: the key image ring_sign returns is x * H_p(x * G) for the private
\* scalar x it was called with, whatever the message, the ring, key_index and
\* the random scalars were; two calls with the same x return the same key image.
C6_Linkability ==
    phase \in {"signed", "verified", "verify_raised"} =>
        signature.key_image =
            Point_rmul(H_p(Generator_rmul(call.private_key)), call.private_key)

C6_Witness ==
    /\ phase = "signed"
    /\ ~Honest(call)
    /\ H_p(call.public_keys[call.key_index + 1])
           # H_p(Generator_rmul(call.private_key))
    /\ signature.key_image # IdentityData

\* C7: a call of ring_sign with key_index outside the ring, or with a public
\* key at key_index that is not x*G, does not raise; it returns a signature,
\* and ring_verify on that signature returns false.
C7_FailureModel ==
    (phase # "idle" /\ ~Honest(call)) =>
        /\ phase # "sign_raised"
        /\ Checked("none") => Rejected

\* C15: after ring_sign returned S, a change of the caller's list public_keys
\* (an element replaced, appended or removed) leaves S.public_keys and what
\* ring_verify(message, S) returns as they were, and nothing done to S changes
\* the content of S.c or S.r.
C15_OwnsCopies ==
    (/\ phase \in {"verified", "verify_raised"}
     /\ check.kind \in {"list[i]=P", "list.append(P)", "list.pop()", "c[i]+=1"}) =>
        /\ check.signature.public_keys = signature.public_keys
        /\ check.signature.c = signature.c
        /\ check.signature.r = signature.r
        /\ Accepted <=> check.valid

\* the sum of f over a set of positions
RECURSIVE SumOver(_, _)
SumOver(f, positions) ==
    IF positions = {} THEN 0
    ELSE LET i == CHOOSE j \in positions : TRUE
         IN  f[i] + SumOver(f, positions \ {i})

C17_ListsOfDifferentLengths ==
    (/\ phase \in {"verified", "verify_raised"}
     /\ check.kind \in {"more keys", "more r", "more c", "fewer r", "no c"}) =>
        /\ check.signature.c # <<>> => phase = "verified"
        /\ (check.valid /\ check.kind \in {"more keys", "more r"}) => Accepted
        /\ (check.valid /\ check.kind = "more c") => Rejected
        /\ check.signature.c = <<>> =>
              /\ phase = "verify_raised"
              /\ raised = "TypeError"

C17_Witness ==
    /\ Checked("more r")
    /\ check.valid
    /\ Len(check.signature.r) > Len(check.signature.c)
    /\ Len(check.signature.c) = Len(check.signature.public_keys)
    /\ Accepted

\* ------------------------------------- properties of operations on scalars
\* the Scalar an evaluated division divides by
Divisor ==
    IF operation.op = "truediv" THEN Converted(operation.other) ELSE operation.self

\* C8: every division by Scalar(0), of a Scalar or of an int, raises
\* ArithmeticError and returns no Scalar.
C8_DivisionByZero ==
    (/\ phase \in {"computed", "compute_raised"}
     /\ operation.op \in {"truediv", "rtruediv"}
     /\ ~ConversionRaises(operation.other)
     /\ Scalar_eq_int(Divisor, 0)) =>
        raised = "ArithmeticError"

\* the operations whose result comes out of libsodium's arithmetic
ArithmeticOperations ==
    LeftOperators \cup RightOperators \cup {"neg", "truediv", "rtruediv", "from_unreduced"}

\* C12: Scalar(n) for an int or for SCALARBYTES bytes holds n as it is, not
\* reduced (Scalar(L + 1) equals the int L + 1 and does not equal Scalar(1)),
\* while every result of +, -, *, unary -, / and from_unreduced, for Scalar
\* and int operands, is in [0, L - 1]; Scalar(L + 1) + 0 equals 1.
C12_DualRepresentation ==
    phase = "computed" =>
        /\ (operation.op = "init" /\ operation.other.type = "int") =>
              /\ Scalar_eq_int(returned, operation.other.n)
              /\ operation.other.n = L + 1 => ~Scalar_eq(returned, Scalar_init(1))
        /\ (operation.op = "init" /\ operation.other.type = "bytes") =>
              Scalar_as_bytes(returned) = operation.other.n
        /\ operation.op \in ArithmeticOperations => returned \in CanonicalScalars
        /\ (/\ operation.op = "add"
            /\ operation.self = Scalar_init(L + 1)
            /\ operation.other = [type |-> "int", n |-> 0]) =>
              Scalar_eq_int(returned, 1)

C12_Witness ==
    /\ phase = "computed"
    /\ operation.op = "add"
    /\ operation.self = Scalar_init(L + 1)
    /\ operation.other = [type |-> "int", n |-> 0]
    /\ returned = 1

\* C13: for canonical scalars x, y, z, one of them at most given as a plain
\* int on either side of an operator, + and * are commutative and associative,
\* x + 0 = x, x + (-x) = 0, x * 1 = x, x * 0 = 0, a - x = -(x - a), and for
\* x and y that are not zero (1/x) * x = 1, x / 1 = x and (x / y) * y = x.
C13_FieldLaws ==
    phase = "evaluated" => Equal(law.lhs, law.rhs)

C13_Witness ==
    /\ phase = "evaluated"
    /\ law.name = "y-x=-(x-y)"
    /\ law.y = AsInt(2)
    /\ law.x = AsScalar(1)
    /\ law.lhs = AsScalar(1)
    /\ law.rhs = AsScalar(1)

\* ------------------------------------------ properties of hash_to_scalar
\* C14: for a digest of any of the sizes, hash_to_scalar returns the
\* little-endian integer of the digest modulo Q, an integer in [0, Q) that
\* fits a scalar's bytes; ring_sign and ring_verify subtract a Scalar from it
\* without OverflowError, and the difference is the integer minus the scalar
\* modulo L.
C14_HashToScalar ==
    /\ phase = "hashed" =>
          /\ returned = int_from_bytes(operation.other.n) % Q
          /\ returned \in 0..(Q - 1)
          /\ ~Scalar_init_raises(returned)
    /\ (phase \in {"computed", "compute_raised"} /\ operation.op = "rsub") =>
          /\ phase = "computed"
          /\ returned \in CanonicalScalars
          /\ (returned + operation.self) % L = operation.other.n % L

C14_Witness ==
    /\ phase = "computed"
    /\ operation.op = "rsub"
    /\ operation.other.n >= L
    /\ operation.self = 2
    /\ returned = (operation.other.n - 2) % L

\* ------------------------------------------------ properties of import_pem
\* import_pem was called and ended
Imported == phase \in {"imported", "import_raised"}

\* the DER values a text holds between its first and last character
EncodedValues(text) ==
    LET symbols == SelectSeq(text, LAMBDA t : t.kind = "b64")
    IN  [i \in 1..Len(symbols) |-> symbols[i].der]

\* the text holds a structure, and what it holds in its field k (from 0)
HoldsStructure(text) ==
    /\ EncodedValues(text) # <<>>
    /\ EncodedValues(text)[1].tag = "SEQUENCE"

EncodedField(text, k) == EncodedValues(text)[1].value[k + 1].value

\* C9: import_pem raises for every encoded signature whose lists c, r and
\* public_keys are not all of one length, and never returns a RingSignature
\* whose lists differ in length.
C9_ListLengths ==
    Imported =>
        /\ (/\ HoldsStructure(pem)
            /\ \/ Len(EncodedField(pem, 3)) # Len(EncodedField(pem, 4))
               \/ Len(EncodedField(pem, 3)) # Len(EncodedField(pem, 2))) =>
                phase = "import_raised"
        /\ phase = "imported" =>
                /\ Len(imported.c) = Len(imported.r)
                /\ Len(imported.c) = Len(imported.public_keys)

\* the positions of a text that hold no whitespace
Inked(text) == {i \in 1..Len(text) : text[i].kind # "ws"}

\* the text, whitespace around it aside, does not start with the opening
\* marker or does not end with the closing marker
BadMarkers(text) ==
    \/ Inked(text) = {}
    \/ \E i \in Inked(text) :
          /\ \A j \in Inked(text) : i <= j
          /\ text[i].kind # "open"
    \/ \E i \in Inked(text) :
          /\ \A j \in Inked(text) : j <= i
          /\ text[i].kind # "close"

\* bytes follow the structure
TrailingBytes(text) == HoldsStructure(text) /\ Len(EncodedValues(text)) > 1

\* the structure names another algorithm
WrongObjectId(text) == HoldsStructure(text) /\ EncodedField(text, 0) # OBJECT_ID

\* an octet string of the structure has the wrong length
WrongLength(text) ==
    /\ HoldsStructure(text)
    /\ \/ Len(EncodedField(text, 1)) # BYTES
       \/ \E i \in 1..Len(EncodedField(text, 2)) :
             Len(EncodedField(text, 2)[i].value) # BYTES
       \/ \E k \in {3, 4} : \E i \in 1..Len(EncodedField(text, k)) :
             Len(EncodedField(text, k)[i].value) # SCALARBYTES

\* C10: import_pem raises, and returns no RingSignature, for a text that
\* (whitespace around it aside) does not start with the opening marker or does
\* not end with the closing marker, an "x" after the closing marker included;
\* for a structure followed by more bytes; for another object identifier; and
\* for a key image, public key, c or r whose octet string has the wrong length.
C10_MalformedInputs ==
    (/\ Imported
     /\ \/ BadMarkers(pem)
        \/ TrailingBytes(pem)
        \/ WrongObjectId(pem)
        \/ WrongLength(pem)) =>
        /\ phase = "import_raised"
        /\ raised # "none"
        /\ imported = NoSignature

C10_Witness ==
    /\ Imported
    /\ Len(pem) > 2
    /\ pem[Len(pem)] = X
    /\ pem[Len(pem) - 1] = PEM_CLOSING
    /\ Head(pem) = PEM_OPENING
    /\ ~WrongLength(pem) /\ ~WrongObjectId(pem) /\ ~TrailingBytes(pem)
    /\ raised = "ValueError"

\* --------------------------------- properties of export_pem and import_pem
\* C11: import_pem(export_pem(S)) does not raise and equals S field by field,
\* for every RingSignature S whose three lists have one length and whose
\* components have the right size, canonical scalars or not: the same key
\* image, the same public keys in the same order, and c and r not swapped, in
\* the same order, with the same raw bytes.
C11_RoundTrip ==
    phase \in {"reimported", "reimport_raised"} =>
        /\ phase = "reimported"
        /\ imported.key_image = signature.key_image
        /\ imported.public_keys = signature.public_keys
        /\ imported.c = signature.c
        /\ imported.r = signature.r

C11_Witness ==
    /\ phase = "reimported"
    /\ Len(signature.c) = 2
    /\ signature.c # signature.r
    /\ signature.c[1] # signature.c[2]
    /\ \E i \in 1..2 : signature.r[i] >= L
    /\ signature.public_keys[1] # signature.public_keys[2]
    /\ imported = signature

====
